---- MODULE Spec2Model ----
(***************************************************************************)
(* A model of exchangelib's QuerySet (exchangelib/queryset.py): the lazy,  *)
(* chainable query builder, its execution planner (_query), the result     *)
(* cache behind __iter__/__len__/__getitem__, the three projection         *)
(* formatters and the terminal operations get/count/exists/delete.         *)
(*                                                                         *)
(* Python values are encoded as follows.                                   *)
(*   None-or-tuple  : [isNone |-> BOOLEAN, v |-> sequence]                 *)
(*   Q or None      : [isNone |-> BOOLEAN, lits |-> set of literals], the  *)
(*                    conjunction of its literals; Q() is the empty one    *)
(*   an element     : [kind |-> "obj" | "pair", pos |-> retrieval position,*)
(*                     a |-> attribute values]; pos stands for the Python  *)
(*                    object's identity and is never read by the code      *)
(*   an output      : [shape, pos, keys, vals], see the formatters         *)
(* Field values are positive integers; Null stands for Python's None.      *)
(***************************************************************************)
EXTENDS Integers, Sequences, FiniteSets, TLC

VARIABLES folder, qs, last

vars == <<folder, qs, last>>

----------------------------------------------------------------------------
(* Bounds of the model *)

NItems == 3
MaxOrder == 2
MaxIndex == 0
MaxRuns == 2

(* Python's None as an attribute value *)
Null == 0

----------------------------------------------------------------------------
(* Names *)

VALUES == "values"
VALUES_LIST == "values_list"
FLAT == "flat"
NONE == "none"
RETURN_TYPES == {VALUES, VALUES_LIST, FLAT, NONE}

IdFields == {"item_id", "changekey"}

\* folder.allowed_field_names() and folder.complex_field_names()
allowed_field_names == <<"subject", "body">>
complex_field_names == {"body"}

Range(s) == {s[i] : i \in 1..Len(s)}

\* The attributes of an item object, in a fixed order
AttrSeq == <<"item_id", "changekey", "subject", "body">>
AttrNames == Range(AttrSeq)

\* Every string the model passes as a field argument, in a fixed order
NameSeq == <<"item_id", "changekey", "subject", "body", "bogus",
             "-item_id", "-changekey", "-subject", "-body", "-bogus">>
NameUniverse == Range(NameSeq)

\* f.startswith('-')
startswith_dash(f) == \E n \in NameUniverse : f = "-" \o n

\* f.lstrip('-')
RECURSIVE lstrip_dash(_)
lstrip_dash(f) ==
    IF startswith_dash(f)
    THEN lstrip_dash(CHOOSE n \in NameUniverse : f = "-" \o n)
    ELSE f

\* tuple(a set of names): some order of the set's elements
SetToSeq(S) == SelectSeq(NameSeq, LAMBDA n : n \in S)

NoneT == [isNone |-> TRUE, v |-> <<>>]
Some(t) == [isNone |-> FALSE, v |-> t]

\* Python truthiness of a tuple or None
Truthy(o) == ~o.isNone /\ Len(o.v) > 0

Reverse(s) == [i \in 1..Len(s) |-> s[Len(s) + 1 - i]]

----------------------------------------------------------------------------
(* The predicate expression Q: a conjunction of literals over one         *)
(* condition, "subject = 1".                                               *)

Conds == {"subject1"}
Lits == [c : Conds, neg : BOOLEAN]

NoneQ == [isNone |-> TRUE, lits |-> {}]
Q(lits) == [isNone |-> FALSE, lits |-> lits]

\* Q.from_filter_args(...) or Q(): no argument gives the empty Q
from_filter_args(cs) == Q({[c |-> c, neg |-> FALSE] : c \in cs})
\* ~Q.from_filter_args(...) or Q()
negated_filter_args(cs) == Q({[c |-> c, neg |-> TRUE] : c \in cs})
\* q1 & q2
AndQ(q1, q2) == Q(q1.lits \cup q2.lits)

HoldsCond(c, item) == item["subject"] = 1
Matches(q, item) == \A l \in q.lits : HoldsCond(l.c, item) # l.neg

----------------------------------------------------------------------------
(* The remote collection and its two services *)

\* The values of the fields subject and body
Vals == {1, 2}

\* The collections the planner is run against: item k has item_id k and
\* changekey NItems + k, and any subject and body
Folders ==
    {[k \in 1..NItems |->
        [n \in AttrNames |->
            CASE n = "item_id" -> k
              [] n = "changekey" -> NItems + k
              [] n = "subject" -> sb[k][1]
              [] n = "body" -> sb[k][2]]] :
     sb \in [1..NItems -> Vals \X Vals]}

\* One collection with exactly one item whose subject is not 1
TheFolder ==
    [k \in 1..NItems |->
        [n \in AttrNames |->
            CASE n = "item_id" -> k
              [] n = "changekey" -> NItems + k
              [] n = "subject" -> IF k = 2 THEN 2 ELSE 1
              [] n = "body" -> IF k = 1 THEN 2 ELSE 1]]

MatchingPos(q) == SelectSeq([k \in 1..NItems |-> k], LAMBDA k : Matches(q, folder[k]))

Pair(k) ==
    [kind |-> "pair", pos |-> k,
     a |-> [n \in AttrNames |-> IF n \in IdFields THEN folder[k][n] ELSE Null]]

Hydrated(k, names) ==
    [kind |-> "obj", pos |-> k,
     a |-> [n \in AttrNames |-> IF n \in IdFields \cup names THEN folder[k][n] ELSE Null]]

\* folder.find_items(q, additional_fields=..., shape=IdOnly): identity pairs
\* when additional_fields is None, else objects carrying the requested fields
\* the listing service can return
find_items(q, additional_fields) ==
    LET ps == MatchingPos(q)
        names == (Range(additional_fields.v) \cap Range(allowed_field_names))
                    \ complex_field_names
    IN  IF additional_fields.isNone
        THEN [i \in 1..Len(ps) |-> Pair(ps[i])]
        ELSE [i \in 1..Len(ps) |-> Hydrated(ps[i], names)]

\* folder.fetch(ids=..., only_fields=...): objects for exactly these ids
fetch(ids, only_fields) ==
    [i \in 1..Len(ids) |->
        Hydrated(ids[i].pos, Range(only_fields) \cap Range(allowed_field_names))]

FindCall(additional_fields) ==
    [svc |-> "find_items", fields |-> additional_fields, ids |-> <<>>]
FetchCall(ids, only_fields) ==
    [svc |-> "fetch", fields |-> Some(only_fields),
     ids |-> [i \in 1..Len(ids) |-> ids[i].a["item_id"]]]

----------------------------------------------------------------------------
(* QuerySet.__init__ and QuerySet.copy *)

\* runs and by_none are not fields of the class: runs counts the completed
\* planner runs that filled this instance's cache, by_none tells that none()
\* returned this instance
QuerySet ==
    [q |-> Q({}), only_fields |-> NoneT, order_fields |-> NoneT,
     reversed |-> FALSE, return_format |-> NONE, cache |-> NoneT, runs |-> 0,
     by_none |-> FALSE]

\* A copy that also takes the receiver's cache along
copy_with_cache(self) ==
    [self EXCEPT !.by_none = FALSE]

copy(self) ==
    [QuerySet EXCEPT
        !.q = self.q,
        !.only_fields = self.only_fields,
        !.order_fields = self.order_fields,
        !.reversed = self.reversed,
        !.return_format = self.return_format]

\* _check_fields: TRUE when every name is allowed (no ValueError)
check_fields(field_names) ==
    \A i \in 1..Len(field_names) :
        field_names[i] \in Range(allowed_field_names) \cup IdFields

----------------------------------------------------------------------------
(* The execution planner, QuerySet._query *)

\* One stable pass of sorted(): x goes after every element whose key is <= its own
RECURSIVE InsertStable(_, _, _)
InsertStable(s, x, f) ==
    IF s = <<>> THEN <<x>>
    ELSE IF s[1].a[f] <= x.a[f]
         THEN <<s[1]>> \o InsertStable(Tail(s), x, f)
         ELSE <<x>> \o s

RECURSIVE StableSort(_, _)
StableSort(s, f) ==
    IF s = <<>> THEN <<>>
    ELSE InsertStable(StableSort(SubSeq(s, 1, Len(s) - 1), f), s[Len(s)], f)

\* sorted(items, key=attrgetter(f), reverse=rev): a reverse sort keeps the
\* original order of equal elements
sorted(items, f, rev) ==
    IF rev THEN Reverse(StableSort(Reverse(items), f)) ELSE StableSort(items, f)

\* Comparing None with None raises TypeError
SortRaises(items, f) == Len(items) >= 2 /\ \E i \in 1..Len(items) : items[i].a[f] = Null

\* The passes run in declaration order: the first key is sorted first
RECURSIVE sort_passes_forward(_, _, _)
sort_passes_forward(items, order_fields, i) ==
    IF i > Len(order_fields) THEN [err |-> "", items |-> items]
    ELSE LET f == lstrip_dash(order_fields[i])
         IN  IF SortRaises(items, f) THEN [err |-> "TypeError", items |-> <<>>]
             ELSE sort_passes_forward(sorted(items, f, startswith_dash(order_fields[i])),
                                      order_fields, i + 1)

\* for f in reversed(self.order_fields): items = sorted(...); the passes for
\* the keys after the i-th run first, the pass for the i-th key runs last
RECURSIVE sort_passes(_, _, _)
sort_passes(items, order_fields, i) ==
    IF i > Len(order_fields) THEN [err |-> "", items |-> items]
    ELSE LET rest == sort_passes(items, order_fields, i + 1)
             f == lstrip_dash(order_fields[i])
         IN  IF rest.err # "" THEN rest
             ELSE IF SortRaises(rest.items, f) THEN [err |-> "TypeError", items |-> <<>>]
             ELSE [err |-> "", items |-> sorted(rest.items, f, startswith_dash(order_fields[i]))]

\* additional_fields before the order_by fields are added
requested_fields(self) ==
    IF self.only_fields.isNone THEN allowed_field_names
    ELSE SelectSeq(self.only_fields.v, LAMBDA f : f \notin IdFields)

complex_fields_requested(self) ==
    Range(requested_fields(self)) \cap complex_field_names # {}

extra_order_fields(self) ==
    IF Truthy(self.order_fields)
    THEN Range(self.order_fields.v) \ Range(requested_fields(self))
    ELSE {}

additional_fields(self) == requested_fields(self) \o SetToSeq(extra_order_fields(self))

\* setattr(i, f, None) for every f in extra_order_fields
clean_item(i, extra) ==
    [i EXCEPT !.a = [n \in AttrNames |-> IF n \in extra THEN Null ELSE i.a[n]]]

shortcut(self) == Len(additional_fields(self)) = 0 /\ ~Truthy(self.order_fields)

\* A planner without the two-step hydration: complex fields go to the listing
retrieve_by_listing(self, af, ids) ==
    IF shortcut(self)
    THEN [items |-> ids, calls |-> <<FindCall(NoneT)>>]
    ELSE [items |-> find_items(self.q, Some(af)), calls |-> <<FindCall(Some(af))>>]

\* The retrieval strategy: identity listing, two-step hydration or direct
\* listing; [items, calls]
retrieve(self, af, ids) ==
    IF shortcut(self)
    THEN [items |-> ids, calls |-> <<FindCall(NoneT)>>]
    ELSE IF complex_fields_requested(self)
    THEN [items |-> fetch(ids, af), calls |-> <<FindCall(NoneT), FetchCall(ids, af)>>]
    ELSE [items |-> find_items(self.q, Some(af)), calls |-> <<FindCall(Some(af))>>]

\* if self.reversed: items = reversed(items)
reversed_items(self, srt) ==
    IF srt.err = "" /\ self.reversed THEN [srt EXCEPT !.items = Reverse(@)] ELSE srt

\* for i in items: yield clean_item(i)
clean_items(items, extra) ==
    IF extra # {} THEN [i \in 1..Len(items) |-> clean_item(items[i], extra)] ELSE items

\* The part of _query under "if self.order_fields"
ordered_items(self, got, srt) ==
    IF srt.err # ""
    THEN [err |-> srt.err, items |-> <<>>, calls |-> got.calls]
    ELSE [err |-> "", items |-> clean_items(srt.items, extra_order_fields(self)),
          calls |-> got.calls]

\* The part of _query after the retrieval
retrieved_items(self, got) ==
    IF ~Truthy(self.order_fields)
    THEN [err |-> "", items |-> got.items, calls |-> got.calls]
    ELSE ordered_items(self, got,
                       reversed_items(self, sort_passes(got.items, self.order_fields.v, 1)))

\* _query: [err, items, calls]
query(self) ==
    retrieved_items(self, retrieve(self, additional_fields(self), find_items(self.q, NoneT)))

----------------------------------------------------------------------------
(* The projection formatters.  An output is [shape, pos, keys, vals]:      *)
(*   "obj"   a hydrated object, keys = AttrSeq, vals = its attributes      *)
(*   "pair"  a raw (item_id, changekey) tuple, vals = the two values       *)
(*   "dict"  a mapping, keys = its keys, vals = their values               *)
(*   "tuple" a tuple, vals = its values                                    *)
(*   "flat"  a bare value, vals = <<value>>                                *)

RawOut(e) ==
    IF e.kind = "pair"
    THEN [shape |-> "pair", pos |-> e.pos, keys |-> <<>>,
          vals |-> <<e.a["item_id"], e.a["changekey"]>>]
    ELSE [shape |-> "obj", pos |-> e.pos, keys |-> AttrSeq,
          vals |-> [i \in 1..Len(AttrSeq) |-> e.a[AttrSeq[i]]]]

\* The keys of {k: ... for k in fields}: each name once, in first-seen order
RECURSIVE DictKeys(_)
DictKeys(fields) ==
    IF fields = <<>> THEN <<>>
    ELSE LET init == DictKeys(SubSeq(fields, 1, Len(fields) - 1))
             k == fields[Len(fields)]
         IN  IF k \in Range(init) THEN init ELSE Append(init, k)

\* A formatter that looks at its fields alone, not at the ordering
reads_pairs_by_fields(self) ==
    Len(SelectSeq(self.only_fields.v, LAMBDA f : f \notin IdFields)) = 0

\* The condition under which a formatter reads (item_id, changekey) tuples
reads_pairs(self) ==
    Len(SelectSeq(self.only_fields.v, LAMBDA f : f \notin IdFields)) = 0
    /\ ~Truthy(self.order_fields)

\* The identity fields a formatter emits for a tuple, in the code's order
pair_keys(only) ==
    IF "changekey" \notin Range(only) THEN <<"item_id">>
    ELSE IF "item_id" \notin Range(only) THEN <<"changekey">>
    ELSE <<"item_id", "changekey">>

\* Unpacking an object as a tuple raises TypeError; reading a field of a tuple
\* raises AttributeError
KindError(self, cache) ==
    IF reads_pairs(self)
    THEN IF \E i \in 1..Len(cache) : cache[i].kind # "pair" THEN "TypeError" ELSE ""
    ELSE IF \E i \in 1..Len(cache) : cache[i].kind # "obj" THEN "AttributeError" ELSE ""

as_values(self, cache) ==
    IF Len(self.only_fields.v) = 0 THEN [err |-> "ValueError", out |-> <<>>]
    ELSE IF KindError(self, cache) # "" THEN [err |-> KindError(self, cache), out |-> <<>>]
    ELSE LET ks == IF reads_pairs(self) THEN pair_keys(self.only_fields.v)
                   ELSE DictKeys(self.only_fields.v)
         IN  [err |-> "",
              out |-> [i \in 1..Len(cache) |->
                        [shape |-> "dict", pos |-> cache[i].pos, keys |-> ks,
                         vals |-> [j \in 1..Len(ks) |-> cache[i].a[ks[j]]]]]]

as_values_list(self, cache) ==
    IF Len(self.only_fields.v) = 0 THEN [err |-> "ValueError", out |-> <<>>]
    ELSE IF KindError(self, cache) # "" THEN [err |-> KindError(self, cache), out |-> <<>>]
    ELSE LET ks == IF reads_pairs(self) THEN pair_keys(self.only_fields.v)
                   ELSE self.only_fields.v
         IN  [err |-> "",
              out |-> [i \in 1..Len(cache) |->
                        [shape |-> "tuple", pos |-> cache[i].pos, keys |-> <<>>,
                         vals |-> [j \in 1..Len(ks) |-> cache[i].a[ks[j]]]]]]

as_flat_values_list(self, cache) ==
    IF Len(self.only_fields.v) # 1 THEN [err |-> "ValueError", out |-> <<>>]
    ELSE IF KindError(self, cache) # "" THEN [err |-> KindError(self, cache), out |-> <<>>]
    ELSE [err |-> "",
          out |-> [i \in 1..Len(cache) |->
                    [shape |-> "flat", pos |-> cache[i].pos, keys |-> <<>>,
                     vals |-> <<cache[i].a[self.only_fields.v[1]]>>]]]

\* The dispatch at the end of __iter__, run to the end by the consumer
format(self, cache) ==
    CASE self.return_format = VALUES -> as_values(self, cache)
      [] self.return_format = VALUES_LIST -> as_values_list(self, cache)
      [] self.return_format = FLAT -> as_flat_values_list(self, cache)
      [] OTHER -> [err |-> "", out |-> [i \in 1..Len(cache) |-> RawOut(cache[i])]]

----------------------------------------------------------------------------
(* The result cache: __iter__, __len__, __getitem__.  Each operation gives *)
(* [self, status, val, calls]: the instance afterwards, "ok" or the name   *)
(* of the exception raised, the value returned and the remote calls made.  *)

\* self._cache = list(self._query()) that also stores a cache when _query raises
cached_on_failure(self, r) ==
    IF r.err # ""
    THEN [self |-> [self EXCEPT !.cache = Some(<<>>)], err |-> r.err, calls |-> r.calls]
    ELSE [self |-> [self EXCEPT !.cache = Some(r.items),
                                !.runs = IF @ < MaxRuns THEN @ + 1 ELSE @],
          err |-> "", calls |-> r.calls]

\* self._cache = list(self._query()): nothing is assigned when _query raises
cached(self, r) ==
    IF r.err # "" THEN [self |-> self, err |-> r.err, calls |-> r.calls]
    ELSE [self |-> [self EXCEPT !.cache = Some(r.items),
                                !.runs = IF @ < MaxRuns THEN @ + 1 ELSE @],
          err |-> "", calls |-> r.calls]

\* A cache test by truth value: an empty cache counts as unfilled
fill_cache_if_empty(self) ==
    IF Truthy(self.cache) THEN [self |-> self, err |-> "", calls |-> <<>>]
    ELSE IF self.q.isNone
         THEN [self |-> [self EXCEPT !.cache = Some(<<>>)], err |-> "", calls |-> <<>>]
         ELSE cached(self, query(self))

\* The first half of __iter__: fill the cache if it is None
fill_cache(self) ==
    IF ~self.cache.isNone THEN [self |-> self, err |-> "", calls |-> <<>>]
    ELSE IF self.q.isNone
         THEN [self |-> [self EXCEPT !.cache = Some(<<>>)], err |-> "", calls |-> <<>>]
         ELSE cached(self, query(self))

\* The iterator __iter__ returns, consumed to its end
consumed(f, o) ==
    [self |-> f.self, status |-> IF o.err = "" THEN "ok" ELSE o.err, val |-> o.out,
     calls |-> f.calls]

iterator_of(f) ==
    IF f.err # ""
    THEN [self |-> f.self, status |-> f.err, val |-> <<>>, calls |-> f.calls]
    ELSE consumed(f, format(f.self, f.self.cache.v))

\* list(self): __iter__, then the returned iterator consumed to its end
iterate(self) == iterator_of(fill_cache(self))

\* A planner run r whose n-th remote call raises RemoteFailure: the calls up
\* to the failing one were issued and _query returns nothing
remote_failure(r, n) ==
    [err |-> "RemoteFailure", items |-> <<>>, calls |-> SubSeq(r.calls, 1, n)]

\* list(self) when the n-th remote call of the cache fill raises
failing_iterate(self, n) ==
    iterator_of(IF ~self.cache.isNone \/ self.q.isNone THEN fill_cache(self)
                ELSE cached(self, remote_failure(query(self), n)))

len_of(f) ==
    IF f.err # ""
    THEN [self |-> f.self, status |-> f.err, val |-> <<>>, calls |-> f.calls]
    ELSE [self |-> f.self, status |-> "ok", val |-> <<Len(f.self.cache.v)>>,
          calls |-> f.calls]

\* len(self)
length(self) == len_of(fill_cache(self))

item_of(f, key) ==
    IF f.err # ""
    THEN [self |-> f.self, status |-> f.err, val |-> <<>>, calls |-> f.calls]
    ELSE IF key >= Len(f.self.cache.v)
    THEN [self |-> f.self, status |-> "IndexError", val |-> <<>>, calls |-> f.calls]
    ELSE [self |-> f.self, status |-> "ok",
          val |-> <<RawOut(f.self.cache.v[key + 1])>>, calls |-> f.calls]

\* self[key] for an index key >= 0
getitem(self, key) == item_of(fill_cache(self), key)

----------------------------------------------------------------------------
(* The chaining surface.  Each method gives [err, self, ret]: "" or the    *)
(* exception raised, the receiver afterwards and the QuerySet returned     *)
(* (the receiver itself stands in when the call raises).                   *)

Returned(self, new_qs) == [err |-> "", self |-> self, ret |-> new_qs]
Raised(self, e) == [err |-> e, self |-> self, ret |-> self]

all(self) == Returned(self, [copy(self) EXCEPT !.cache = NoneT])

none(self) ==
    Returned(self, [copy(self) EXCEPT !.cache = NoneT, !.q = NoneQ, !.by_none = TRUE])

filter(self, cs) ==
    LET new_qs == copy(self)
        q == from_filter_args(cs)
    IN  Returned(self, [new_qs EXCEPT !.q = IF new_qs.q.isNone THEN q ELSE AndQ(new_qs.q, q)])

exclude(self, cs) ==
    LET new_qs == copy(self)
        q == negated_filter_args(cs)
    IN  Returned(self, [new_qs EXCEPT !.q = IF new_qs.q.isNone THEN q ELSE AndQ(new_qs.q, q)])

\* only() that sets the fields on the receiver instead of on a copy
only_in_place(self, args) ==
    IF ~check_fields(args) THEN Raised(self, "ValueError")
    ELSE Returned([self EXCEPT !.only_fields = Some(args)],
                  [self EXCEPT !.only_fields = Some(args)])

only(self, args) ==
    IF ~check_fields(args) THEN Raised(self, "ValueError")
    ELSE Returned(self, [copy(self) EXCEPT !.only_fields = Some(args)])

order_by(self, args) ==
    IF ~check_fields([i \in 1..Len(args) |-> lstrip_dash(args[i])])
    THEN Raised(self, "ValueError")
    ELSE Returned(self, [copy(self) EXCEPT !.order_fields = Some(args)])

\* reverse() that sets the flag instead of toggling it
reverse_sets_flag(self) ==
    IF ~Truthy(self.order_fields) THEN Raised(self, "ValueError")
    ELSE Returned(self, [copy(self) EXCEPT !.reversed = TRUE])

reverse(self) ==
    IF ~Truthy(self.order_fields) THEN Raised(self, "ValueError")
    ELSE Returned(self, [copy(self) EXCEPT !.reversed = ~self.reversed])

values(self, args) ==
    IF ~check_fields(args) THEN Raised(self, "ValueError")
    ELSE Returned(self, [copy(self) EXCEPT !.only_fields = Some(args),
                                           !.return_format = VALUES])

\* flat is the truth value of the first positional argument
values_list(self, flat, args) ==
    IF ~check_fields(args) THEN Raised(self, "ValueError")
    ELSE Returned(self, [copy(self) EXCEPT !.only_fields = Some(args),
                                           !.return_format = IF flat THEN FLAT
                                                             ELSE VALUES_LIST])

----------------------------------------------------------------------------
(* The terminal operations, [self, status, val, calls] like a consumption  *)

\* get() after items = list(new_qs)
get_of(self, r) ==
    IF r.status # "ok"
    THEN [self |-> self, status |-> r.status, val |-> <<>>, calls |-> r.calls]
    ELSE IF Len(r.val) = 0
    THEN [self |-> self, status |-> "DoesNotExist", val |-> <<>>, calls |-> r.calls]
    ELSE IF Len(r.val) # 1
    THEN [self |-> self, status |-> "MultipleObjectsReturned", val |-> <<>>,
          calls |-> r.calls]
    ELSE [self |-> self, status |-> "ok", val |-> <<r.val[1]>>, calls |-> r.calls]

get(self, cs) == get_of(filter(self, cs).self, iterate(filter(self, cs).ret))

\* The specification count() and delete() build
minimal(self) ==
    [copy(self) EXCEPT !.only_fields = Some(<<>>), !.order_fields = NoneT,
                       !.reversed = FALSE]

\* len(list(new_qs))
count_of(self, r) ==
    IF r.status # "ok"
    THEN [self |-> self, status |-> r.status, val |-> <<>>, calls |-> r.calls]
    ELSE [self |-> self, status |-> "ok", val |-> <<Len(r.val)>>, calls |-> r.calls]

count(self) == count_of(self, iterate(minimal(self)))

\* self.count() > 0
positive(r) == IF r.status # "ok" THEN r ELSE [r EXCEPT !.val = <<r.val[1] > 0>>]

exists(self) == positive(count(self))

\* account.bulk_delete(ids=new_qs, ...) consumes the ids it is handed; val is
\* the sequence it receives.  The deletion itself happens outside this class.
bulk_delete(self, r) ==
    [self |-> self, status |-> r.status, val |-> r.val, calls |-> r.calls]

delete(self) == bulk_delete(self, iterate(minimal(self)))

----------------------------------------------------------------------------
(* The state machine.  qs holds the QuerySet instances the caller keeps:   *)
(* the receiver of the last chaining call and, after it, the QuerySet that *)
(* call returned.  last records the last operation: its name, the index of *)
(* its receiver before (from) and after (recv) the step, the conditions    *)
(* passed to get(), "ok" or the exception raised, the value returned and   *)
(* the remote calls issued.  The receiver of a chaining call is only       *)
(* iterated afterwards; the newest instance is consumed in every way.      *)

\* The argument tuples the calls are tried with
OnlyArgs == {<<"subject">>, <<"bogus">>}
OrderArgs == {<<>>, <<"subject">>, <<"-bogus">>}
FieldArgs == {<<>>, <<"item_id">>, <<"subject", "body">>, <<"bogus">>}
FilterArgs == {Conds}
GetArgs == SUBSET Conds

ChainOps ==
    {"all", "none", "filter", "exclude", "only", "order_by", "reverse", "values",
     "values_list"}
ConsumeOps == {"iterate", "len", "getitem"}
TerminalOps == {"get", "count", "exists", "delete"}

Op(name, from, recv, arg, status, val, calls) ==
    [op |-> name, from |-> from, recv |-> recv, arg |-> arg, status |-> status,
     val |-> val, calls |-> calls]

Init ==
    /\ folder = TheFolder
    /\ qs = <<QuerySet>>
    /\ last = Op("init", 1, 1, {}, "ok", <<>>, <<>>)

\* A chaining call on qs[i]: the caller keeps the receiver and the result, or
\* the receiver alone when the call raises
Chain(i, name, r) ==
    /\ qs' = IF r.err = "" THEN <<r.self, r.ret>> ELSE <<r.self>>
    /\ last' = Op(name, i, 1, {}, IF r.err = "" THEN "ok" ELSE r.err, <<>>, <<>>)
    /\ UNCHANGED folder

\* A consumption of qs[i]
Consume(i, name, r) ==
    /\ qs' = [qs EXCEPT ![i] = r.self]
    /\ last' = Op(name, i, i, {}, r.status, r.val, r.calls)
    /\ UNCHANGED folder

\* A terminal operation on qs[i], the one instance the caller goes on with
Terminal(i, name, arg, r) ==
    /\ qs' = <<r.self>>
    /\ last' = Op(name, i, 1, arg, r.status, r.val, r.calls)
    /\ UNCHANGED folder

All == \E i \in 1..Len(qs) : Chain(i, "all", all(qs[i]))

None_ == \E i \in 1..Len(qs) : Chain(i, "none", none(qs[i]))

Filter == \E i \in 1..Len(qs), cs \in FilterArgs : Chain(i, "filter", filter(qs[i], cs))

Exclude == \E i \in 1..Len(qs), cs \in FilterArgs : Chain(i, "exclude", exclude(qs[i], cs))

Only == \E i \in 1..Len(qs), args \in OnlyArgs : Chain(i, "only", only(qs[i], args))

OrderBy == \E i \in 1..Len(qs), args \in OrderArgs : Chain(i, "order_by", order_by(qs[i], args))

ReverseOp == \E i \in 1..Len(qs) : Chain(i, "reverse", reverse(qs[i]))

Values == \E i \in 1..Len(qs), args \in FieldArgs : Chain(i, "values", values(qs[i], args))

ValuesList ==
    \E i \in 1..Len(qs), flat \in BOOLEAN, args \in FieldArgs :
        Chain(i, "values_list", values_list(qs[i], flat, args))

Iterate == \E i \in 1..Len(qs) : Consume(i, "iterate", iterate(qs[i]))

Length == \E i \in {Len(qs)} : Consume(i, "len", length(qs[i]))

GetItem ==
    \E i \in {Len(qs)}, key \in 0..MaxIndex : Consume(i, "getitem", getitem(qs[i], key))

Get == \E i \in 1..Len(qs), cs \in GetArgs : Terminal(i, "get", cs, get(qs[i], cs))

Count == \E i \in 1..Len(qs) : Terminal(i, "count", {}, count(qs[i]))

Exists == \E i \in 1..Len(qs) : Terminal(i, "exists", {}, exists(qs[i]))

Delete == \E i \in 1..Len(qs) : Terminal(i, "delete", {}, delete(qs[i]))

Next ==
    \/ All \/ None_ \/ Filter \/ Exclude \/ Only \/ OrderBy \/ ReverseOp
    \/ Values \/ ValuesList
    \/ Iterate \/ Length \/ GetItem
    \/ Get \/ Count \/ Exists \/ Delete

Spec == Init /\ [][Next]_vars

----------------------------------------------------------------------------
(* Properties of the chaining surface and the result cache, under Spec     *)

Filled(b) == ~b.cache.isNone

\* C1: a chaining call leaves its receiver unchanged in every field (predicate,
\* fields, order keys, reversed flag, shape, cache), whether it returns a new
\* QuerySet or raises, and consuming one instance leaves the other unchanged
C1_CopyIndependence ==
    [][/\ last'.op \in ChainOps => qs'[1] = qs[last'.from]
       /\ (last'.op \in ChainOps /\ last'.status = "ok") => Len(qs') = 2
       /\ (last'.op \in ConsumeOps /\ Len(qs) = 2) =>
             /\ Len(qs') = 2
             /\ qs'[3 - last'.from] = qs[3 - last'.from]]_vars

\* The receiver is iterated after the QuerySet chained from it was consumed
C1_Witness ==
    /\ Len(qs) = 2
    /\ last.op = "iterate" /\ last.recv = 1 /\ last.status = "ok" /\ Len(last.val) > 0
    /\ Filled(qs[2]) /\ qs[2].runs = 1
    /\ qs[2].only_fields # qs[1].only_fields

\* C2: an instance's cache is filled by at most one planner run, and a
\* consumption (iteration, length, indexing) that finds the cache filled issues
\* no remote call and leaves the cache as it is; one that finds it unfilled
\* with a predicate runs the planner
C2_OneTimeMaterialization ==
    [][/\ \A i \in 1..Len(qs') : qs'[i].runs <= 1
       /\ last'.op \in ConsumeOps =>
             /\ Filled(qs[last'.from]) =>
                   /\ last'.calls = <<>>
                   /\ qs'[last'.recv] = qs[last'.from]
             /\ (~Filled(qs[last'.from]) /\ ~qs[last'.from].q.isNone) =>
                   /\ Len(last'.calls) >= 1
                   /\ last'.calls[1].svc = "find_items"]_vars

\* An instance whose one planner run found nothing is consumed again
C2_Witness ==
    /\ last.op \in ConsumeOps /\ last.calls = <<>>
    /\ qs[last.recv].runs = 1
    /\ qs[last.recv].cache = Some(<<>>)

\* C3: the QuerySet a chaining call returns has an unfilled cache, also when
\* the receiver's cache is filled, and its first consumption queries the
\* remote collection
C3_CopyStartsUnfilled ==
    [][/\ (last'.op \in ChainOps /\ last'.status = "ok") =>
             /\ ~Filled(qs'[2])
             /\ qs'[2].runs = 0
       /\ (last'.op \in ConsumeOps /\ qs[last'.from].runs = 0
              /\ ~qs[last'.from].q.isNone) =>
             Len(last'.calls) >= 1]_vars

\* A chaining call on a receiver whose cache holds results
C3_Witness ==
    /\ Len(qs) = 2
    /\ last.op \in ChainOps \ {"all", "none"} /\ last.status = "ok"
    /\ Filled(qs[1]) /\ Len(qs[1].cache.v) > 0
    /\ ~Filled(qs[2])

\* What consuming an empty result gives, per operation
EmptyResult ==
    CASE last.op = "iterate" -> last.status = "ok" /\ last.val = <<>>
      [] last.op = "len" -> last.status = "ok" /\ last.val = <<0>>
      [] last.op = "getitem" -> last.status = "IndexError"
      [] last.op = "count" -> last.status = "ok" /\ last.val = <<0>>
      [] last.op = "exists" -> last.status = "ok" /\ last.val = <<FALSE>>
      [] OTHER -> TRUE

\* C4: consuming a QuerySet returned by none() (iteration, length, indexing,
\* count, exists) gives an empty result and issues no remote call, whatever
\* the receiver's predicate, fields, ordering and shape were
C4_NoneIsEmpty ==
    (last.op \in ConsumeOps \cup {"count", "exists"} /\ qs[last.recv].by_none) =>
        (last.calls = <<>> /\ EmptyResult)

\* C5: count() returns the number of elements consuming all() on the same
\* QuerySet gives, and exists() tells whether that number is positive, for
\* every fields, ordering, reversal and shape
C5_CountEqualsAll ==
    LET r == iterate(all(qs[last.recv]).ret)
    IN  r.status = "ok" =>
          /\ last.op = "count" => (last.status = "ok" /\ last.val = <<Len(r.val)>>)
          /\ last.op = "exists" => (last.status = "ok" /\ last.val = <<Len(r.val) > 0>>)

\* A QuerySet whose shape a consumer can never read
InvalidShape(b) ==
    \/ b.return_format \in {VALUES, VALUES_LIST} /\ Len(b.only_fields.v) = 0
    \/ b.return_format = FLAT /\ Len(b.only_fields.v) # 1

\* C6: every validation error is raised by the chaining call, before any
\* remote call: no QuerySet with a wrong number of field names for its shape
\* is ever returned, and no operation that raises ValueError has issued a
\* listing or fetch call
C6_ValidationAtChaining ==
    /\ \A i \in 1..Len(qs) : ~InvalidShape(qs[i])
    /\ last.status = "ValueError" => last.calls = <<>>

\* The number of items get(arg) on the receiver has to choose from
GetMatches ==
    LET q == IF qs[last.recv].q.isNone THEN from_filter_args(last.arg)
             ELSE AndQ(qs[last.recv].q, from_filter_args(last.arg))
    IN  Len(MatchingPos(q))

GetOutcome ==
    /\ GetMatches = 0 => last.status = "DoesNotExist"
    /\ GetMatches >= 2 => last.status = "MultipleObjectsReturned"
    /\ GetMatches = 1 => (last.status = "ok" /\ Len(last.val) = 1)

\* C10: get() raises DoesNotExist when no item matches, MultipleObjectsReturned
\* when two or more match, and returns the one element when exactly one does;
\* in every case the receiver is left as it was
C10_GetOutcome ==
    [][last'.op = "get" => (GetOutcome' /\ qs'[1] = qs[last'.from])]_vars

\* The identity pairs of the items matching q, as an iteration yields them
IdentityPairs(q) ==
    IF q.isNone THEN <<>>
    ELSE LET ps == MatchingPos(q)
         IN  [i \in 1..Len(ps) |->
                [shape |-> "pair", pos |-> ps[i], keys |-> <<>>,
                 vals |-> <<folder[ps[i]]["item_id"], folder[ps[i]]["changekey"]>>]]

\* C13: delete() on any QuerySet hands bulk_delete a sequence that yields,
\* without raising, exactly the identity pairs of the items matching the
\* predicate, got by one identity-only listing call; the receiver is unchanged
C13_DeleteHandsOverIds ==
    [][last'.op = "delete" =>
          /\ last'.status = "ok"
          /\ last'.val = IdentityPairs(qs[last'.from].q)
          /\ ~qs[last'.from].q.isNone => last'.calls = <<FindCall(NoneT)>>
          /\ qs'[1] = qs[last'.from]]_vars

\* C18: the None predicate set by none() survives every further chaining
\* call, so that every QuerySet derived from it is still empty, and get() on
\* such a QuerySet finds no element and issues no remote call
C18_NoneAbsorbing ==
    [][/\ (last'.op \in ChainOps /\ last'.status = "ok" /\ qs[last'.from].q.isNone) =>
             qs'[2].q.isNone
       /\ (last'.op = "get" /\ qs[last'.from].q.isNone) =>
             (last'.status = "DoesNotExist" /\ last'.calls = <<>>)]_vars

----------------------------------------------------------------------------
(* The planner on its own: any collection, a QuerySet built by only() and  *)
(* order_by() with any keys, then reverse() and reverse() again, the       *)
(* caller keeping every instance, and at last each instance iterated once, *)
(* oldest first.                                                           *)

Tuples(S, n) == UNION {[1..k -> S] : k \in 0..n}

PlanOnlyArgs == {<<>>, <<"subject">>, <<"body">>}
PlanOrderKeys == {"subject", "-subject", "body", "-body"}
PlanOrderArgs == Tuples(PlanOrderKeys, MaxOrder) \cup {<<"item_id">>, <<"-item_id">>}

PlanInit ==
    /\ folder \in Folders
    /\ qs = <<QuerySet>>
    /\ last = Op("init", 1, 1, {}, "ok", <<>>, <<>>)

PlanOnly ==
    /\ Len(qs) = 1 /\ qs[1].only_fields.isNone /\ qs[1].order_fields.isNone
    /\ ~Filled(qs[1])
    /\ \E args \in PlanOnlyArgs :
          /\ qs' = <<only(qs[1], args).ret>>
          /\ last' = Op("only", 1, 1, {}, "ok", <<>>, <<>>)
    /\ UNCHANGED folder

PlanOrderBy ==
    /\ Len(qs) = 1 /\ qs[1].order_fields.isNone
    /\ ~Filled(qs[1])
    /\ \E args \in PlanOrderArgs :
          /\ qs' = <<order_by(qs[1], args).ret>>
          /\ last' = Op("order_by", 1, 1, {}, "ok", <<>>, <<>>)
    /\ UNCHANGED folder

PlanReverse ==
    /\ Len(qs) < 3
    /\ ~Filled(qs[1])
    /\ LET r == reverse(qs[Len(qs)])
       IN  /\ qs' = IF r.err = "" THEN Append(qs, r.ret) ELSE qs
           /\ last' = Op("reverse", Len(qs), Len(qs), {},
                         IF r.err = "" THEN "ok" ELSE r.err, <<>>, <<>>)
    /\ UNCHANGED folder

PlanIterate ==
    \E i \in 1..Len(qs) :
        /\ ~Filled(qs[i])
        /\ \A j \in 1..(i - 1) : Filled(qs[j])
        /\ Consume(i, "iterate", iterate(qs[i]))

PlanNext == PlanOnly \/ PlanOrderBy \/ PlanReverse \/ PlanIterate

SpecPlan == PlanInit /\ [][PlanNext]_vars

----------------------------------------------------------------------------
(* Properties of the planner, under SpecPlan *)

\* The sequence the services handed to the planner, in retrieval order
Retrieved(self) ==
    IF shortcut(self) THEN find_items(self.q, NoneT)
    ELSE IF complex_fields_requested(self)
    THEN fetch(find_items(self.q, NoneT), additional_fields(self))
    ELSE find_items(self.q, Some(additional_fields(self)))

\* x comes before y in the order of keys i..n, each key in its own direction,
\* elements equal on every key in retrieval order; ax and ay give the key
\* values of x and y, px and py their retrieval positions
RECURSIVE Precedes(_, _, _, _, _, _)
Precedes(ax, px, ay, py, keys, i) ==
    IF i > Len(keys) THEN px < py
    ELSE LET f == lstrip_dash(keys[i])
         IN  IF ax[f] = ay[f] THEN Precedes(ax, px, ay, py, keys, i + 1)
             ELSE IF startswith_dash(keys[i]) THEN ax[f] > ay[f] ELSE ax[f] < ay[f]

\* out is a permutation of the sequence src
IsPermutation(out, src) ==
    /\ Len(out) = Len(src)
    /\ \A i \in 1..Len(src) : \E j \in 1..Len(out) : out[j].pos = src[i].pos
    /\ \A i, j \in 1..Len(out) : out[i].pos = out[j].pos => i = j

\* The retrieved element an output was made from
RetrievedAt(self, p) ==
    LET src == Retrieved(self)
    IN  src[CHOOSE i \in 1..Len(src) : src[i].pos = p]

Ordered(b) == Truthy(b.order_fields)

\* C7: the sequence an order_by(k1, ..., kn) QuerySet yields is a permutation
\* of the retrieved sequence in which each element precedes the next by k1,
\* ties broken by k2 and so on, each key ascending or, when marked with '-',
\* descending by the retrieved objects' values, and elements equal on every
\* key stay in retrieval order
C7_StableMultiKeySort ==
    (last.op = "iterate" /\ last.status = "ok" /\ Ordered(qs[last.recv])
        /\ ~qs[last.recv].reversed) =>
        LET b == qs[last.recv]
            out == last.val
        IN  /\ IsPermutation(out, Retrieved(b))
            /\ \A i, j \in 1..Len(out) :
                  i < j => Precedes(RetrievedAt(b, out[i].pos).a, out[i].pos,
                                    RetrievedAt(b, out[j].pos).a, out[j].pos,
                                    b.order_fields.v, 1)

\* order_by(f1, "-f2") over three items: two tie on f1 and are told apart by
\* f2, two tie on both, and the sort moves elements
C7_Witness ==
    /\ last.op = "iterate" /\ last.status = "ok" /\ last.recv = 1
    /\ qs[1].order_fields = Some(<<"subject", "-body">>)
    /\ Len(last.val) = 3
    /\ \E i, j \in 1..3 : /\ i < j
                          /\ folder[i]["subject"] = folder[j]["subject"]
                          /\ folder[i]["body"] < folder[j]["body"]
    /\ \E i, j \in 1..3 : /\ i < j
                          /\ folder[i]["subject"] = folder[j]["subject"]
                          /\ folder[i]["body"] = folder[j]["body"]
    /\ \E i \in 1..3 : last.val[i].pos # i

\* C8: reverse() on a QuerySet whose order_fields are None or empty raises
\* ValueError and returns nothing; on an ordered QuerySet it returns one whose
\* sequence is the receiver's sequence inverted element by element, and the
\* QuerySet reversed twice yields the receiver's sequence again
C8_ReverseInverts ==
    [][/\ last'.op = "reverse" =>
             IF Ordered(qs[last'.from])
             THEN /\ last'.status = "ok"
                  /\ Len(qs') = Len(qs) + 1
                  /\ qs'[Len(qs')].reversed = ~qs[last'.from].reversed
             ELSE /\ last'.status = "ValueError"
                  /\ qs' = qs
       /\ (last'.op = "iterate" /\ last'.status = "ok") =>
             /\ (last'.recv >= 2 /\ Filled(qs'[last'.recv - 1])) =>
                   qs'[last'.recv].cache.v = Reverse(qs'[last'.recv - 1].cache.v)
             /\ (last'.recv >= 3 /\ Filled(qs'[last'.recv - 2])) =>
                   qs'[last'.recv].cache.v = qs'[last'.recv - 2].cache.v]_vars

\* The receiver, its reverse and the reverse of that are all consumed, and
\* reversing makes a difference
C8_Witness ==
    /\ Len(qs) = 3 /\ \A i \in 1..3 : Filled(qs[i])
    /\ last.op = "iterate" /\ last.recv = 3 /\ last.status = "ok"
    /\ Len(qs[1].cache.v) = 3
    /\ qs[2].cache.v # qs[1].cache.v
    /\ qs[1].cache.v[1].pos # 1

\* The fields the caller asked for
CallerRequested(b) ==
    IF b.only_fields.isNone THEN Range(allowed_field_names) \cup IdFields
    ELSE Range(b.only_fields.v)

\* The fields of order keys the caller did not ask for
SortOnlyFields(b) ==
    {lstrip_dash(b.order_fields.v[i]) : i \in 1..Len(b.order_fields.v)}
        \ CallerRequested(b)

\* C9: for every order key, ascending or marked with '-', whose field the
\* caller did not request: the field is fetched, the sequence is sorted by the
\* keys (by the items' values in the collection), and every yielded element
\* has the field set to None
C9_SortOnlyFieldsNulled ==
    (last.op = "iterate" /\ Ordered(qs[last.recv]) /\ ~qs[last.recv].reversed
        /\ SortOnlyFields(qs[last.recv]) # {}) =>
        LET b == qs[last.recv]
            out == last.val
        IN  /\ last.status = "ok"
            /\ \A f \in SortOnlyFields(b) :
                  \E c \in 1..Len(last.calls) : f \in Range(last.calls[c].fields.v)
            /\ \A i, j \in 1..Len(out) :
                  i < j => Precedes(folder[out[i].pos], out[i].pos,
                                    folder[out[j].pos], out[j].pos,
                                    b.order_fields.v, 1)
            /\ \A i \in 1..Len(b.cache.v) :
                  \A f \in SortOnlyFields(b) : b.cache.v[i].a[f] = Null

\* C14: a planner run uses exactly one strategy.  With no additional fields
\* and no ordering: one identity-only listing call, whose raw pairs are the
\* result.  Else, if a requested field is complex: one identity-only listing
\* call, then one fetch call for exactly the listed ids and the additional
\* fields.  Else: exactly one listing call asking for the additional fields.
C14_StrategySelection ==
    last.op = "iterate" =>
        LET b == qs[last.recv]
            af == additional_fields(b)
            listed == find_items(b.q, NoneT)
        IN  IF Len(af) = 0 /\ ~Ordered(b)
            THEN /\ last.calls = <<FindCall(NoneT)>>
                 /\ last.status = "ok" /\ b.cache.v = listed
            ELSE IF Range(requested_fields(b)) \cap complex_field_names # {}
            THEN /\ Len(last.calls) = 2
                 /\ last.calls[1] = FindCall(NoneT)
                 /\ last.calls[2] =
                       [svc |-> "fetch", fields |-> Some(af),
                        ids |-> [i \in 1..Len(listed) |-> listed[i].a["item_id"]]]
            ELSE last.calls = <<FindCall(Some(af))>>

\* A planner run took the two-step hydration: the identity listing found
\* three items and the fetch call asked for exactly their ids
C14_Witness ==
    /\ last.op = "iterate" /\ last.status = "ok"
    /\ Len(last.calls) = 2 /\ last.calls[2].svc = "fetch"
    /\ Len(last.calls[2].ids) = 3
    /\ Len(qs[last.recv].cache.v) = 3

\* C15: no listing call of any planner run asks for a complex field, also
\* when the field is an order_by key the caller did not request
C15_NoComplexFieldListed ==
    \A c \in 1..Len(last.calls) :
        last.calls[c].svc = "find_items" =>
            Range(last.calls[c].fields.v) \cap complex_field_names = {}

\* C16: every field name a planner run passes to find_items or fetch is one
\* of the collection's allowed field names (so neither an identity field nor a
\* name with the '-' marker), and no name is passed twice in one call
C16_PassedFieldsAllowed ==
    \A c \in 1..Len(last.calls) :
        LET fs == last.calls[c].fields.v
        IN  /\ \A i \in 1..Len(fs) : fs[i] \in Range(allowed_field_names)
            /\ \A i, j \in 1..Len(fs) : fs[i] = fs[j] => i = j

----------------------------------------------------------------------------
(* The projections on their own: one QuerySet given a shape by values() or *)
(* values_list() with any identity fields and one other field, and an      *)
(* ordering by order_by(), then consumed by iteration, len() and indexing; *)
(* a remote call of a cache fill may fail.                                 *)

ShapeFieldArgs == Tuples({"item_id", "changekey", "subject"}, 2)
ShapeOrderArgs == {<<>>, <<"item_id">>, <<"-item_id">>, <<"subject">>, <<"-subject">>}

ShapeInit ==
    /\ folder = TheFolder
    /\ qs = <<QuerySet>>
    /\ last = Op("init", 1, 1, {}, "ok", <<>>, <<>>)

ShapeValues ==
    /\ qs[1].return_format = NONE /\ ~Filled(qs[1])
    /\ \E args \in ShapeFieldArgs :
          /\ qs' = <<values(qs[1], args).ret>>
          /\ last' = Op("values", 1, 1, {}, "ok", <<>>, <<>>)
    /\ UNCHANGED folder

ShapeValuesList ==
    /\ qs[1].return_format = NONE /\ ~Filled(qs[1])
    /\ \E flat \in BOOLEAN, args \in ShapeFieldArgs :
          /\ qs' = <<values_list(qs[1], flat, args).ret>>
          /\ last' = Op("values_list", 1, 1, {}, "ok", <<>>, <<>>)
    /\ UNCHANGED folder

ShapeOrderBy ==
    /\ qs[1].order_fields.isNone /\ ~Filled(qs[1])
    /\ \E args \in ShapeOrderArgs :
          /\ qs' = <<order_by(qs[1], args).ret>>
          /\ last' = Op("order_by", 1, 1, {}, "ok", <<>>, <<>>)
    /\ UNCHANGED folder

ShapeIterate == \E i \in 1..Len(qs) : Consume(i, "iterate", iterate(qs[i]))

\* An iteration during which the n-th remote call of the cache fill fails
ShapeIterateFails ==
    \E i \in 1..Len(qs) :
        /\ ~Filled(qs[i]) /\ ~qs[i].q.isNone
        /\ \E n \in 1..Len(query(qs[i]).calls) :
              Consume(i, "iterate", failing_iterate(qs[i], n))

ShapeLength == \E i \in 1..Len(qs) : Consume(i, "len", length(qs[i]))

\* qs[1][key]: the index is kept in the record of the call
ShapeGetItem ==
    \E key \in 0..MaxIndex :
        LET r == getitem(qs[1], key)
        IN  /\ qs' = <<r.self>>
            /\ last' = Op("getitem", 1, 1, {key}, r.status, r.val, r.calls)
            /\ UNCHANGED folder

ShapeNext ==
    \/ ShapeValues \/ ShapeValuesList \/ ShapeOrderBy
    \/ ShapeIterate \/ ShapeIterateFails \/ ShapeLength \/ ShapeGetItem

SpecShape == ShapeInit /\ [][ShapeNext]_vars

----------------------------------------------------------------------------
(* Properties of the projections, under SpecShape *)

\* C11: iterating values_list(flat=True) on "item_id" yields one bare item id
\* per matching item, never None, in the order of the order_by keys (any
\* allowed field, item_id included) or, without ordering, in retrieval order
C11_FlatItemIds ==
    (last.op = "iterate" /\ last.status # "RemoteFailure"
        /\ qs[1].return_format = FLAT /\ qs[1].only_fields = Some(<<"item_id">>)) =>
        LET out == last.val
            keys == IF Ordered(qs[1]) THEN qs[1].order_fields.v ELSE <<>>
        IN  /\ last.status = "ok"
            /\ Len(out) = Len(MatchingPos(qs[1].q))
            /\ \A i \in 1..Len(out) :
                  /\ out[i].shape = "flat"
                  /\ out[i].vals = <<folder[out[i].pos]["item_id"]>>
            /\ \A i, j \in 1..Len(out) :
                  i < j => Precedes(folder[out[i].pos], out[i].pos,
                                    folder[out[j].pos], out[j].pos, keys, 1)

\* C12: for every shape, indexing returns the value iteration yields at that
\* position (the mapping, tuple or scalar the shape asks for), and len()
\* returns the number of elements iteration yields
C12_IndexingMatchesIteration ==
    LET it == iterate(qs[1])
    IN  (it.status = "ok") =>
          /\ (last.op = "getitem") =>
                (\A key \in last.arg :
                    IF key < Len(it.val)
                    THEN last.status = "ok" /\ last.val = <<it.val[key + 1]>>
                    ELSE last.status = "IndexError")
          /\ (last.op = "len") => (last.status = "ok" /\ last.val = <<Len(it.val)>>)

\* C17: every cached element carries, for every field the caller asked for
\* (the identity fields included), the value the item has in the collection,
\* also when the field is an order_by key
C17_RequestedFieldsKept ==
    Filled(qs[1]) =>
        \A i \in 1..Len(qs[1].cache.v) :
            \A f \in CallerRequested(qs[1]) :
                qs[1].cache.v[i].a[f] = folder[qs[1].cache.v[i].pos][f]

\* C19: an iteration whose cache fill meets a remote failure raises it and
\* leaves the QuerySet as it was, the cache unfilled; the consumption after
\* it runs the planner again, and a cache it fills holds every matching item
C19_FailureLeavesCacheUnfilled ==
    [][/\ (last'.op = "iterate" /\ last'.status = "RemoteFailure") =>
             /\ qs' = qs
             /\ ~Filled(qs'[last'.recv])
       /\ (last.op = "iterate" /\ last.status = "RemoteFailure"
              /\ last'.op \in ConsumeOps) =>
             /\ Len(last'.calls) >= 1 /\ last'.calls[1].svc = "find_items"
             /\ Filled(qs'[1]) => Len(qs'[1].cache.v) = Len(MatchingPos(qs'[1].q))]_vars

\* The fetch call of a two-step cache fill has failed
C19_Witness ==
    /\ last.op = "iterate" /\ last.status = "RemoteFailure"
    /\ Len(last.calls) = 2 /\ last.calls[2].svc = "fetch"
    /\ ~Filled(qs[1]) /\ qs[1].runs = 0

\* C20: a formatter reads the cached elements as (item_id, changekey) tuples
\* exactly when the planner run that filled the cache took the shortcut, and
\* as objects otherwise, so that it never meets an element of the other kind;
\* reading tuples, it emits exactly the identity fields that were asked for.
\* The property is about iterations whose cache is filled and whose formatter
\* accepts the number of fields.
C20_FormatterAgreesWithPlanner ==
    (last.op = "iterate" /\ qs[1].return_format # NONE
        /\ Filled(qs[1]) /\ last.status # "ValueError") =>
        LET b == qs[1]
            out == last.val
            asked == Range(b.only_fields.v)
        IN  /\ last.status = "ok"
            /\ reads_pairs(b) <=> shortcut(b)
            /\ \A i \in 1..Len(b.cache.v) :
                  b.cache.v[i].kind = IF shortcut(b) THEN "pair" ELSE "obj"
            /\ shortcut(b) =>
                  \A i \in 1..Len(out) :
                      /\ asked \subseteq IdFields
                      /\ out[i].shape = "dict" => Range(out[i].keys) = asked
                      /\ Range(out[i].vals) = {folder[out[i].pos][f] : f \in asked}

\* A mapping with the change key alone was made from the tuples of a
\* shortcut run over three items
C20_Witness ==
    /\ last.op = "iterate" /\ last.status = "ok" /\ Len(last.val) = 3
    /\ qs[1].return_format = VALUES
    /\ qs[1].only_fields = Some(<<"changekey">>)
    /\ last.calls = <<FindCall(NoneT)>>
    /\ qs[1].cache.v[1].kind = "pair"
    /\ last.val[1].keys = <<"changekey">>

====
